---- MODULE Spec2Model ----
(***************************************************************************)
(* PublicationCollector (src/README.md, lines 101-276): one collector      *)
(* instance, the collect() calls made on it, the handler each call         *)
(* invokes, and the cursors / observation handles the handler returns.     *)
(*                                                                         *)
(* Scheduling follows the JavaScript event loop: a handler's synchronous   *)
(* part runs without interruption, promise continuations (microtasks) run  *)
(* before any timer or external event, and timers, cursor events and       *)
(* delivery callbacks only run when nothing else is runnable.              *)
(***************************************************************************)
EXTENDS Integers, Sequences, FiniteSets, TLC

\* ------------------------------------------------------------------ bounds
MaxCalls == 2        \* collect() invocations on the instance
MaxCursors == 2      \* longest sequence a handler returns
MaxOps == 2          \* added/changed/removed calls a handler makes per call
MaxHistory == 3      \* store calls in a recorded sequence (StoreSpec)
MaxStops == 2        \* stop() invocations from outside collect (StopSpec)
StopSpecCalls == 1   \* collect() invocations in StopSpec
FairSpecCalls == 1   \* collect() invocations in FairSpec
MaxLater == 2        \* operations after a snapshot was returned (AliasSpec)

\* --------------------------------------------------------------- constants
TimeoutMs == 5000

CallIds == 1..MaxCalls
Collections == {"a", "b", "c"}
ManualCollections == {"m"}
ManualIds == {"i1"}
Errors == {"E1", "E2"}
FieldBags == {[x |-> 1], [y |-> 2]}

\* Meteor.server.publish_handlers: the names that have a handler.
publish_handlers == {"pub"}
PubNames == publish_handlers \cup {"nope"}

NoVal == [kind |-> "none"]
NotFoundError(name) == [kind |-> "notFound", name |-> name]
TimeoutError(name) == [kind |-> "timeout", name |-> name, ms |-> TimeoutMs]
UserError(e) == [kind |-> "user", id |-> e]

\* ------------------------------------------------- values a handler returns
\* A cursor stand-in: its collection name and the documents its initial
\* fetch reports, in fetch order.
Doc1 == [id |-> "i1", fields |-> [x |-> 3]]
Doc2 == [id |-> "i2", fields |-> [y |-> 4]]
CursorPool ==
    { [kind |-> "cursor", coll |-> "a", data |-> << >>],
      [kind |-> "cursor", coll |-> "a", data |-> <<Doc1, Doc2>>],
      [kind |-> "cursor", coll |-> "b", data |-> <<Doc1>>],
      [kind |-> "cursor", coll |-> "c", data |-> <<Doc2>>] }
NullRes == [kind |-> "null", coll |-> "", data |-> << >>]
OtherRes == [kind |-> "other", coll |-> "", data |-> << >>]
Items == CursorPool \cup {OtherRes}
SeqsUpTo(S, n) == UNION { [1..k -> S] : k \in 0..n }
ArrayRes(elems) == [kind |-> "array", elems |-> elems]
ReturnValues ==
    {NullRes, OtherRes} \cup CursorPool
        \cup { ArrayRes(s) : s \in SeqsUpTo(Items, MaxCursors) }

\* ------------------------------------------------------------ pure helpers
\* { ...f, ...g } and Object.assign(f, g)
Merge(f, g) ==
    [k \in DOMAIN f \cup DOMAIN g |-> IF k \in DOMAIN g THEN g[k] ELSE f[k]]

Indices(bucket, id) == { k \in 1..Len(bucket) : bucket[k].key = id }

RemoveAt(s, k) == [j \in 1..(Len(s) - 1) |-> IF j < k THEN s[j] ELSE s[j + 1]]

_isCursor(obj) == obj.kind = "cursor"

\* Variant: of an array only the first cursor is kept.
_extractCursors_FirstOnly(res) ==
    IF res.kind = "null" THEN << >>
    ELSE IF _isCursor(res) THEN <<res>>
    ELSE IF res.kind = "array"
         THEN LET kept == SelectSeq(res.elems, _isCursor)
              IN  IF kept = << >> THEN << >> ELSE <<Head(kept)>>
    ELSE << >>

_extractCursors(res) ==
    IF res.kind = "null" THEN << >>
    ELSE IF _isCursor(res) THEN <<res>>
    ELSE IF res.kind = "array" THEN SelectSeq(res.elems, _isCursor)
    ELSE << >>

\* The store: collection name -> bucket; a bucket lists its entries
\* (key, document) in the order the keys were first inserted.
_ensureCollectionInRes(docs, collection) ==
    [c \in DOMAIN docs \cup {collection} |->
        IF c \in DOMAIN docs THEN docs[c] ELSE << >>]

added(docs, collection, id, fields) ==
    LET d == _ensureCollectionInRes(docs, collection)
        b == d[collection]
        doc == Merge([_id |-> id], fields)
        at == Indices(b, id)
    IN  [d EXCEPT ![collection] =
            IF at = {} THEN Append(b, [key |-> id, doc |-> doc])
            ELSE [k \in 1..Len(b) |->
                    IF k \in at THEN [key |-> id, doc |-> doc] ELSE b[k]]]

\* Variant: changed sets the document to the id plus the given fields.
changed_Replaces(docs, collection, id, fields) ==
    added(docs, collection, id, fields)

changed(docs, collection, id, fields) ==
    LET d == _ensureCollectionInRes(docs, collection)
        b == d[collection]
        at == Indices(b, id)
    IN  [d EXCEPT ![collection] =
            [k \in 1..Len(b) |->
                IF k \in at THEN [b[k] EXCEPT !.doc = Merge(@, fields)]
                ELSE b[k]]]

removed(docs, collection, id) ==
    LET d == _ensureCollectionInRes(docs, collection)
        b == d[collection]
        at == Indices(b, id)
    IN  [d EXCEPT ![collection] =
            IF at = {} THEN b ELSE RemoveAt(b, CHOOSE k \in at : TRUE)]

\* this._documents[collection][id] is a document
Present(docs, collection, id) ==
    /\ collection \in DOMAIN docs
    /\ Indices(docs[collection], id) # {}

_generateResponse(docs) ==
    [c \in DOMAIN docs |-> [k \in 1..Len(docs[c]) |-> docs[c][k].doc]]

\* ------------------------------------------------------------------- state
VARIABLES
    _documents,         \* this._documents
    _stopped,           \* this._stopped
    _observeHandles,    \* this._observeHandles: handles <<call, index>>
    _allAddsProcessed,  \* this._allAddsProcessed: the call whose adds promise
                        \* it resolves, 0 when undefined
    _addsPromise,       \* this._addsPromise: the call that created it, 0 if none
    _readyResolver,     \* this._readyResolver: the call whose readyPromise it
                        \* resolves, 0 when undefined
    calls,              \* per collect() call: its promises, timer, handler,
                        \* _publishHandlerResult position and cursors
    n,                  \* collect() calls made so far
    history             \* the added/changed/removed calls made on the store, in
                        \* call order (recorded by StoreSpec only)

vars == <<_documents, _stopped, _observeHandles, _allAddsProcessed,
          _addsPromise, _readyResolver, calls, n, history>>

Unused ==
    [ name |-> "", outcome |-> [st |-> "none", val |-> NoVal],
      readyFired |-> FALSE, addsFired |-> FALSE,
      timeout |-> "none", chain |-> "none", chainOn |-> 0,
      handler |-> "none", calledReady |-> FALSE, manual |-> FALSE,
      failVia |-> "none", failErr |-> NoVal,
      ops |-> 0, result |-> NullRes, pc |-> "none", cur |-> << >> ]

\* The whole state as one value, so that a handler's nested calls compose.
World ==
    [ _documents |-> _documents, _stopped |-> _stopped,
      _observeHandles |-> _observeHandles,
      _allAddsProcessed |-> _allAddsProcessed, _addsPromise |-> _addsPromise,
      _readyResolver |-> _readyResolver, calls |-> calls, n |-> n ]

Becomes(w) ==
    /\ _documents' = w._documents
    /\ _stopped' = w._stopped
    /\ _observeHandles' = w._observeHandles
    /\ _allAddsProcessed' = w._allAddsProcessed
    /\ _addsPromise' = w._addsPromise
    /\ _readyResolver' = w._readyResolver
    /\ calls' = w.calls
    /\ n' = w.n
    /\ history' = history

\* ------------------------------------------------- the collector's methods
Times(handles, h) == Cardinality({ k \in 1..Len(handles) : handles[k] = h })

\* handle.stop() on every element of the array
StopEach(cs, handles) ==
    [c \in DOMAIN cs |->
        [cs[c] EXCEPT !.cur =
            [i \in 1..Len(cs[c].cur) |->
                [cs[c].cur[i] EXCEPT !.stops = @ + Times(handles, <<c, i>>)]]]]

\* Variant: stop() does not look at the stopped flag.
stop_Unguarded(w) ==
    [w EXCEPT !._stopped = TRUE,
              !.calls = StopEach(w.calls, w._observeHandles),
              !._observeHandles = << >>]

\* Variant: the array is not emptied after the handles are stopped.
stop_KeepsHandles(w) ==
    IF w._stopped THEN w
    ELSE [w EXCEPT !._stopped = TRUE,
                   !.calls = StopEach(w.calls, w._observeHandles)]

stop(w) ==
    IF w._stopped THEN w
    ELSE [w EXCEPT !._stopped = TRUE,
                   !.calls = StopEach(w.calls, w._observeHandles),
                   !._observeHandles = << >>]

\* Variant: cleanup does not clear the timer.
cleanup_KeepsTimer(w, c) == stop(w)

\* cleanup(timeout): Meteor.clearTimeout(timeout); this.stop()
cleanup(w, c) ==
    stop([w EXCEPT !.calls[c].timeout = IF @ = "armed" THEN "cleared" ELSE @])

\* Variant: a later resolve replaces the outcome.
resolve_Overwrites(w, c, v) ==
    [w EXCEPT !.calls[c].outcome = [st |-> "resolved", val |-> v]]

\* resolve / reject of the promise collect() returns: the first one wins.
resolve(w, c, v) ==
    IF w.calls[c].outcome.st = "pending"
    THEN [w EXCEPT !.calls[c].outcome = [st |-> "resolved", val |-> v]]
    ELSE w

reject(w, c, err) ==
    IF w.calls[c].outcome.st = "pending"
    THEN [w EXCEPT !.calls[c].outcome = [st |-> "rejected", val |-> err]]
    ELSE w

ready(w) ==
    IF w._readyResolver = 0 THEN w
    ELSE [w EXCEPT !.calls[w._readyResolver].readyFired = TRUE]

\* this._allAddsProcessed?.()
allAddsProcessed(w) ==
    IF w._allAddsProcessed = 0 THEN w
    ELSE [w EXCEPT !.calls[w._allAddsProcessed].addsFired = TRUE]

\* Variant: the error is wrapped in a new one before it is passed on.
HandlerCatch_Wraps(w, c, err) ==
    reject(cleanup(w, c), c, [kind |-> "wrapped", cause |-> err])

\* .catch(err => { cleanup(timeout); reject(err); }) and the catch block
HandlerCatch(w, c, err) == reject(cleanup(w, c), c, err)

\* ------------------------------------------------------------- scheduling
SyncRunning == \E c \in CallIds : calls[c].handler = "sync"

ChainReadyDue(c) == calls[c].chain = "waitReady" /\ calls[c].readyFired
\* Variant: the chain does not wait for this._addsPromise.
ChainResolveDue_ReadyOnly(c) ==
    /\ calls[c].chain = "waitAdds"
    /\ calls[c].chainOn # 0

ChainResolveDue(c) ==
    /\ calls[c].chain = "waitAdds"
    /\ calls[c].chainOn # 0
    /\ calls[calls[c].chainOn].addsFired

\* The handles (cursor states) of call c.
Cur(c) == { calls[c].cur[i] : i \in 1..Len(calls[c].cur) }
StartOkP(h) == h.start = "ok"
StartFailedP(h) == h.start = "failed"
SentP(h) == h.sent = "fired"
SentFailedP(h) == h.sent = "failed"
FlushedP(h) == h.flush = "done"
FlushFailedP(h) == h.flush = "failed"

AwaitStartsDue(c) == calls[c].pc = "starting" /\ (\A h \in Cur(c) : StartOkP(h))
\* Variant: the flush starts as soon as one initial fetch has been signalled.
AwaitFetchDue_AnySent(c) ==
    calls[c].pc = "fetching" /\ (\E h \in Cur(c) : SentP(h))
AwaitFetchDue(c) == calls[c].pc = "fetching" /\ (\A h \in Cur(c) : SentP(h))
AwaitFlushDue(c) == calls[c].pc = "flushing" /\ (\A h \in Cur(c) : FlushedP(h))
FailedStage(c, h) ==
    \/ calls[c].pc = "starting" /\ StartFailedP(h)
    \/ calls[c].pc = "fetching" /\ SentFailedP(h)
    \/ calls[c].pc = "flushing" /\ FlushFailedP(h)
PublishFailsDue(c) == \E i \in 1..Len(calls[c].cur) : FailedStage(c, calls[c].cur[i])

MicrotaskDue ==
    \E c \in CallIds :
        \/ ChainReadyDue(c) \/ ChainResolveDue(c)
        \/ calls[c].pc = "queued"
        \/ AwaitStartsDue(c) \/ AwaitFetchDue(c) \/ AwaitFlushDue(c)
        \/ PublishFailsDue(c)

\* Nothing is running and no continuation is queued: timers, cursor events,
\* delivery callbacks and the test's next statement may run.
Idle == ~SyncRunning /\ ~MicrotaskDue

\* A call no longer does anything: it has settled, its handler has finished,
\* _publishHandlerResult has run to its end and no cursor of it is still
\* starting or draining.
Drained(h) ==
    /\ h.start # "pending"
    /\ (h.start = "ok" /\ h.stops = 0) => (h.sent # "pending" /\ h.queue = << >>)
Quiescent(c) ==
    /\ calls[c].outcome.st \in {"resolved", "rejected"}
    /\ calls[c].handler \in {"none", "returned", "threw"}
    /\ calls[c].pc \in {"none", "done", "failed"}
    /\ (\A h \in Cur(c) : Drained(h))

\* The call was found and has not been superseded by a later call.
Live(c) == calls[c].chain # "none"

\* What is left of a finished call once a later call begins: its outcome.
Retired(r) ==
    [Unused EXCEPT !.name = r.name, !.outcome = [st |-> r.outcome.st, val |-> NoVal]]

\* ------------------------------------------------------------------ Init
Init ==
    /\ _documents = << >>
    /\ _stopped = FALSE
    /\ _observeHandles = << >>
    /\ _allAddsProcessed = 0
    /\ _addsPromise = 0
    /\ _readyResolver = 0
    /\ calls = [c \in CallIds |-> Unused]
    /\ n = 0
    /\ history = << >>

\* --------------------------------------------------------------- collect()
\* The caller starts a call only when the previous ones have finished.
MayCollect ==
    /\ n < MaxCalls
    /\ \A c \in 1..n : Quiescent(c)
    /\ Idle

NewCall(name) ==
    [Unused EXCEPT !.name = name,
                   !.outcome = [st |-> "pending", val |-> NoVal],
                   !.timeout = "armed",
                   !.chain = "waitReady",
                   !.handler = "sync"]

\* collect(name, ...args) up to the point where the handler has been entered:
\* lookup, reset, the promises, the timer and the readyPromise chain.
\* Variant: the state is reset before the handler is looked up.
NotFound_AfterReset(w, c, name) ==
    [w EXCEPT !.n = c,
              !._documents = << >>,
              !._stopped = FALSE,
              !._observeHandles = << >>,
              !.calls[c] = [Unused EXCEPT
                  !.name = name,
                  !.outcome = [st |-> "rejected", val |-> NotFoundError(name)]]]

\* if (!handler) throw new Error(`Publication "${name}" not found`)
NotFound(w, c, name) ==
    [w EXCEPT !.n = c,
              !.calls[c] = [Unused EXCEPT
                  !.name = name,
                  !.outcome = [st |-> "rejected", val |-> NotFoundError(name)]]]

\* Variant: the document store is not reset.
Begin_KeepsDocuments(w, c, name) ==
    [w EXCEPT !.n = c,
              !._stopped = FALSE,
              !._observeHandles = << >>,
              !._addsPromise = c,
              !._allAddsProcessed = c,
              !._readyResolver = c,
              !.calls[c] = NewCall(name)]

\* Variant: the observer set is not reset.
Begin_KeepsHandles(w, c, name) ==
    [w EXCEPT !.n = c,
              !._documents = << >>,
              !._stopped = FALSE,
              !._addsPromise = c,
              !._allAddsProcessed = c,
              !._readyResolver = c,
              !.calls[c] = NewCall(name)]

\* Reset state, then the promise executor up to the handler's invocation.
Begin(w, c, name) ==
    [w EXCEPT !.n = c,
              !._documents = << >>,
              !._stopped = FALSE,
              !._observeHandles = << >>,
              !._addsPromise = c,
              !._allAddsProcessed = c,
              !._readyResolver = c,
              !.calls[c] = NewCall(name)]

collect(name) ==
    /\ MayCollect
    /\ LET c == n + 1
           w == [World EXCEPT !.calls =
                    [k \in CallIds |->
                        IF k <= n THEN Retired(calls[k]) ELSE calls[k]]]
       IN  IF name \notin publish_handlers
           THEN Becomes(NotFound(w, c, name))
           ELSE Becomes(Begin(w, c, name))

\* ------------------------------------------------------------- the handler
\* The handler of call c may act: it is in its synchronous part, or it is an
\* async function resumed after an await.
Running(c) ==
    \/ calls[c].handler = "sync"
    \/ calls[c].handler = "async" /\ Idle

HandlerAdded(c, collection, id, fields) ==
    /\ Running(c)
    /\ calls[c].ops < MaxOps
    /\ Becomes([World EXCEPT
            !._documents = added(@, collection, id, fields),
            !.calls[c].manual = TRUE,
            !.calls[c].ops = @ + 1])

HandlerChanged(c, collection, id, fields) ==
    /\ Running(c)
    /\ calls[c].ops < MaxOps
    /\ Becomes([World EXCEPT
            !._documents = changed(@, collection, id, fields),
            !.calls[c].manual = TRUE,
            !.calls[c].ops = @ + 1])

HandlerRemoved(c, collection, id) ==
    /\ Running(c)
    /\ calls[c].ops < MaxOps
    /\ Becomes([World EXCEPT
            !._documents = removed(@, collection, id),
            !.calls[c].manual = TRUE,
            !.calls[c].ops = @ + 1])

\* this.ready() called by the handler itself
HandlerReady(c) ==
    /\ Running(c)
    /\ ~calls[c].calledReady
    /\ Becomes(ready([World EXCEPT !.calls[c].calledReady = TRUE]))

\* The handler fails with err: by a throw in its synchronous part (the catch
\* block of collect), or by the rejection of the pending value it returned
\* (the .catch of the handler-result chain).
HandlerFails(w, c, err, via) ==
    HandlerCatch([w EXCEPT !.calls[c].handler = "threw",
                           !.calls[c].ops = 0,
                           !.calls[c].failVia = via,
                           !.calls[c].failErr = err], c, err)

HandlerThrows(c, e) ==
    /\ calls[c].handler = "sync"
    /\ Becomes(HandlerFails(World, c, UserError(e), "throw"))

HandlerRejects(c, e) ==
    /\ calls[c].handler = "async"
    /\ Idle
    /\ Becomes(HandlerFails(World, c, UserError(e), "reject"))

\* this.error(err) called by the handler: throw err
error(c, e) ==
    /\ Running(c)
    /\ Becomes(HandlerFails(World, c, UserError(e), "shim"))

\* The handler returns res synchronously: Promise.resolve(result).then(...)
HandlerReturns(c, res) ==
    /\ calls[c].handler = "sync"
    /\ Becomes([World EXCEPT !.calls[c].handler = "returned",
                             !.calls[c].ops = 0,
                             !.calls[c].result = res,
                             !.calls[c].pc = "queued"])

\* The handler returns a pending value (an async function at its first await)
HandlerAwaits(c) ==
    /\ calls[c].handler = "sync"
    /\ Becomes([World EXCEPT !.calls[c].handler = "async"])

\* The pending value resolves to res
HandlerResolves(c, res) ==
    /\ calls[c].handler = "async"
    /\ Idle
    /\ Becomes([World EXCEPT !.calls[c].handler = "returned",
                             !.calls[c].ops = 0,
                             !.calls[c].result = res,
                             !.calls[c].pc = "queued"])

\* ------------------------------------------- the readyPromise chain (153-162)
\* readyPromise.then(() => this._addsPromise)
ChainReady(c) ==
    /\ ChainReadyDue(c)
    /\ ~SyncRunning
    /\ Becomes([World EXCEPT !.calls[c].chain = "waitAdds",
                             !.calls[c].chainOn = _addsPromise])

\* .then(() => { cleanup(timeout); resolve(this._generateResponse()); })
ChainResolveStep(w, c) ==
    LET w1 == cleanup([w EXCEPT !.calls[c].chain = "done"], c)
    IN  resolve(w1, c, _generateResponse(w1._documents))

ChainResolve(c) ==
    /\ ChainResolveDue(c)
    /\ ~SyncRunning
    /\ Becomes(ChainResolveStep(World, c))

\* ------------------------------------------------- _publishHandlerResult
NewHandle(cursor, start, err) ==
    [ coll |-> cursor.coll, data |-> cursor.data, start |-> start, err |-> err,
      sent |-> "pending", queue |-> << >>, flush |-> "none", stops |-> 0 ]

\* Variant: no collection name is registered before the observations start.
EnsureAll_Skips(docs, cursors, upTo) == docs

RECURSIVE EnsureAll(_, _, _)
EnsureAll(docs, cursors, upTo) ==
    IF upTo = 0 THEN docs
    ELSE _ensureCollectionInRes(EnsureAll(docs, cursors, upTo - 1),
                                cursors[upTo].coll)

\* Variant: the catch block swallows the error.
PublishCatch_Swallows(w, c, err) == [w EXCEPT !.calls[c].pc = "failed"]

\* this.error(error) in the catch block rethrows, the async function rejects,
\* and the .catch of the handler-result chain runs.
PublishCatch(w, c, err) ==
    HandlerCatch([w EXCEPT !.calls[c].pc = "failed"], c, err)

\* Variant: the zero-cursor branch leaves ready() to the handler.
NoCursors_WaitsForReady(w, c) ==
    allAddsProcessed([w EXCEPT !.calls[c].pc = "done"])

\* Variant: the zero-cursor branch returns without firing either signal.
NoCursors_FiresNothing(w, c) == [w EXCEPT !.calls[c].pc = "done"]

\* Zero cursors: both signals are fired at once.
NoCursors(w, c) ==
    ready(allAddsProcessed([w EXCEPT !.calls[c].pc = "done"]))

\* cursors.map(...): every cursor's collection is registered and its
\* observation started, in order; throwAt > 0 is the cursor whose
\* _publishCursor throws instead of returning a promise.
StartCursors(w, c, cursors, throwAt, err) ==
    LET last == IF throwAt = 0 THEN Len(cursors) ELSE throwAt
        w1 == [w EXCEPT
                !._documents = EnsureAll(@, cursors, last),
                !.calls[c].cur =
                    [i \in 1..Len(cursors) |->
                        IF throwAt = 0 \/ i < throwAt
                        THEN NewHandle(cursors[i], "pending", NoVal)
                        ELSE IF i = throwAt
                        THEN NewHandle(cursors[i], "failed", err)
                        ELSE NewHandle(cursors[i], "none", NoVal)],
                !.calls[c].pc = "starting"]
    IN  IF throwAt = 0 THEN w1 ELSE PublishCatch(w1, c, err)

PublishHandlerResult(c, throwAt, e) ==
    /\ calls[c].pc = "queued"
    /\ ~SyncRunning
    /\ LET cursors == _extractCursors(calls[c].result)
       IN  /\ throwAt <= Len(cursors)
           /\ throwAt = 0 => e = CHOOSE x \in Errors : TRUE
           /\ IF Len(cursors) = 0
              THEN Becomes(NoCursors(World, c))
              ELSE Becomes(StartCursors(World, c, cursors, throwAt, UserError(e)))

\* await Promise.all(cursors.map(...)) has every handle:
\* this._observeHandles.push(...observeHandles)
AwaitStartsStep(w, c) ==
    [w EXCEPT !._observeHandles =
                  @ \o [i \in 1..Len(w.calls[c].cur) |-> <<c, i>>],
              !.calls[c].pc = "fetching"]

AwaitStarts(c) ==
    /\ AwaitStartsDue(c)
    /\ ~SyncRunning
    /\ Becomes(AwaitStartsStep(World, c))

\* Variant: the queues are not flushed; the signals fire once every initial
\* fetch has been signalled.
AwaitFetchStep_NoFlush(w, c) ==
    ready([allAddsProcessed([w EXCEPT !.calls[c].pc = "done"])
              EXCEPT !._allAddsProcessed = 0])

\* await Promise.all(initialAddsSent) is over: flush() is called on each queue
AwaitFetchStep(w, c) ==
    [w EXCEPT !.calls[c].pc = "flushing",
              !.calls[c].cur =
                  [i \in 1..Len(@) |-> [@[i] EXCEPT !.flush = "pending"]]]

AwaitFetch(c) ==
    /\ AwaitFetchDue(c)
    /\ ~SyncRunning
    /\ Becomes(AwaitFetchStep(World, c))

\* await Promise.all(flush()) is over (205-207)
AwaitFlushStep(w, c) ==
    LET w1 == allAddsProcessed([w EXCEPT !.calls[c].pc = "done"])
    IN  ready([w1 EXCEPT !._allAddsProcessed = 0])

AwaitFlush(c) ==
    /\ AwaitFlushDue(c)
    /\ ~SyncRunning
    /\ Becomes(AwaitFlushStep(World, c))

\* One of the awaited promises rejected: catch (error) { this.error(error) }
PublishFails(c, i) ==
    /\ i \in 1..Len(calls[c].cur)
    /\ FailedStage(c, calls[c].cur[i])
    /\ ~SyncRunning
    /\ Becomes(PublishCatch(World, c, calls[c].cur[i].err))

\* ------------------------------------- the cursor / observation subsystem
\* cursor._publishCursor(this) resolves with its handle
StartOk(c, i) ==
    /\ i \in 1..Len(calls[c].cur)
    /\ calls[c].cur[i].start = "pending"
    /\ Idle
    /\ Becomes([World EXCEPT !.calls[c].cur[i].start = "ok"])

StartFails(c, i, e) ==
    /\ i \in 1..Len(calls[c].cur)
    /\ calls[c].cur[i].start = "pending"
    /\ Idle
    /\ Becomes([World EXCEPT !.calls[c].cur[i].start = "failed",
                             !.calls[c].cur[i].err = UserError(e)])

\* handle.initialAddsSent resolves: the initial fetch has queued one added
\* callback per document on the handle's delivery queue.
InitialAddsSent(c, i) ==
    /\ i \in 1..Len(calls[c].cur)
    /\ calls[c].cur[i].start = "ok"
    /\ calls[c].cur[i].sent = "pending"
    /\ calls[c].cur[i].stops = 0
    /\ Idle
    /\ Becomes([World EXCEPT !.calls[c].cur[i].sent = "fired",
                             !.calls[c].cur[i].queue = calls[c].cur[i].data])

FetchFails(c, i, e) ==
    /\ i \in 1..Len(calls[c].cur)
    /\ calls[c].cur[i].start = "ok"
    /\ calls[c].cur[i].sent = "pending"
    /\ calls[c].cur[i].stops = 0
    /\ Idle
    /\ Becomes([World EXCEPT !.calls[c].cur[i].sent = "failed",
                             !.calls[c].cur[i].err = UserError(e)])

\* The queue runs its next callback: subscription.added(collection, id, fields)
Deliver(c, i) ==
    /\ i \in 1..Len(calls[c].cur)
    /\ calls[c].cur[i].queue # << >>
    /\ calls[c].cur[i].stops = 0
    /\ Idle
    /\ LET h == calls[c].cur[i]
           d == Head(h.queue)
       IN  Becomes([World EXCEPT
               !._documents = added(@, h.coll, d.id, d.fields),
               !.calls[c].cur[i].queue = Tail(h.queue)])

\* _multiplexer._queue.flush() resolves: every queued callback has run
FlushDone(c, i) ==
    /\ i \in 1..Len(calls[c].cur)
    /\ calls[c].cur[i].flush = "pending"
    /\ calls[c].cur[i].queue = << >>
    /\ Idle
    /\ Becomes([World EXCEPT !.calls[c].cur[i].flush = "done"])

FlushFails(c, i, e) ==
    /\ i \in 1..Len(calls[c].cur)
    /\ calls[c].cur[i].flush = "pending"
    /\ Idle
    /\ Becomes([World EXCEPT !.calls[c].cur[i].flush = "failed",
                             !.calls[c].cur[i].err = UserError(e)])

\* ---------------------------------------------------------------- the timer
\* Meteor.setTimeout(() => reject(new Error(...)), 5000) fires (149-151)
\* Variant: the timer callback resolves with what has been collected so far.
TimerFiresStep_Resolves(w, c) ==
    resolve([w EXCEPT !.calls[c].timeout = "fired"], c,
            _generateResponse(w._documents))

\* Variant: the timer callback does nothing.
TimerFiresStep_Ignored(w, c) == [w EXCEPT !.calls[c].timeout = "fired"]

TimerFiresStep(w, c) ==
    reject([w EXCEPT !.calls[c].timeout = "fired"], c,
           TimeoutError(w.calls[c].name))

TimerFires(c) ==
    /\ calls[c].timeout = "armed"
    /\ Idle
    /\ Becomes(TimerFiresStep(World, c))

\* --------------------------------------------------------------------- Next
\* A collect() call is made.
Collects == \E name \in PubNames : collect(name)

\* A call in progress takes a step.
Steps ==
    \/ \E c \in CallIds, coll \in ManualCollections, id \in ManualIds,
          f \in FieldBags : HandlerAdded(c, coll, id, f)
    \/ \E c \in CallIds, coll \in ManualCollections, id \in ManualIds,
          f \in FieldBags : HandlerChanged(c, coll, id, f)
    \/ \E c \in CallIds, coll \in ManualCollections, id \in ManualIds :
          HandlerRemoved(c, coll, id)
    \/ \E c \in CallIds : HandlerReady(c)
    \/ \E c \in CallIds, e \in Errors : HandlerThrows(c, e)
    \/ \E c \in CallIds, e \in Errors : HandlerRejects(c, e)
    \/ \E c \in CallIds, e \in Errors : error(c, e)
    \/ \E c \in CallIds, res \in ReturnValues : HandlerReturns(c, res)
    \/ \E c \in CallIds : HandlerAwaits(c)
    \/ \E c \in CallIds, res \in ReturnValues : HandlerResolves(c, res)
    \/ \E c \in CallIds : ChainReady(c)
    \/ \E c \in CallIds : ChainResolve(c)
    \/ \E c \in CallIds, t \in 0..MaxCursors, e \in Errors :
          PublishHandlerResult(c, t, e)
    \/ \E c \in CallIds : AwaitStarts(c)
    \/ \E c \in CallIds : AwaitFetch(c)
    \/ \E c \in CallIds : AwaitFlush(c)
    \/ \E c \in CallIds, i \in 1..MaxCursors : PublishFails(c, i)
    \/ \E c \in CallIds, i \in 1..MaxCursors : StartOk(c, i)
    \/ \E c \in CallIds, i \in 1..MaxCursors, e \in Errors : StartFails(c, i, e)
    \/ \E c \in CallIds, i \in 1..MaxCursors : InitialAddsSent(c, i)
    \/ \E c \in CallIds, i \in 1..MaxCursors, e \in Errors : FetchFails(c, i, e)
    \/ \E c \in CallIds, i \in 1..MaxCursors : Deliver(c, i)
    \/ \E c \in CallIds, i \in 1..MaxCursors : FlushDone(c, i)
    \/ \E c \in CallIds, i \in 1..MaxCursors, e \in Errors : FlushFails(c, i, e)
    \/ \E c \in CallIds : TimerFires(c)

Next == Collects \/ Steps

Spec == Init /\ [][Next]_vars

\* ------------------------------------------------------ the event loop runs
\* What the runtime guarantees: a queued promise continuation is run; the
\* synchronous part of a handler comes to an end (it returns a value, returns
\* a pending value, or throws), since nothing else can run before it does; and
\* a timer that is armed fires once nothing else is runnable. Nothing is
\* required of cursors and of pending values: they may never settle.
Microtasks ==
    \E c \in CallIds :
        \/ ChainReady(c)
        \/ ChainResolve(c)
        \/ \E t \in 0..MaxCursors, e \in Errors : PublishHandlerResult(c, t, e)
        \/ AwaitStarts(c)
        \/ AwaitFetch(c)
        \/ AwaitFlush(c)
        \/ \E i \in 1..MaxCursors : PublishFails(c, i)

HandlerFinishes ==
    \E c \in CallIds :
        \/ \E res \in ReturnValues : HandlerReturns(c, res)
        \/ HandlerAwaits(c)
        \/ \E e \in Errors : HandlerThrows(c, e)

Timers == \E c \in CallIds : TimerFires(c)

Fairness ==
    /\ WF_vars(Microtasks)
    /\ WF_vars(HandlerFinishes)
    /\ WF_vars(Timers)

FairNext ==
    \/ n < FairSpecCalls /\ Collects
    \/ Steps

FairSpec == Init /\ [][FairNext]_vars /\ Fairness

\* ------------------------------------------------- the store on its own
\* added / changed / removed as pure functions of the store: any sequence of
\* up to MaxHistory calls on a fresh store (this._documents = {}), over two
\* collections, two ids and the field bags, each call recorded in history.
StoreCollections == {"m", "a"}
StoreIds == {"i1", "i2"}
NoFields == << >>

StoreCall(op, collection, id, fields) ==
    [op |-> op, collection |-> collection, id |-> id, fields |-> fields]

StoreUnchanged ==
    UNCHANGED <<_stopped, _observeHandles, _allAddsProcessed, _addsPromise,
                _readyResolver, calls, n>>

StoreAdded(collection, id, fields) ==
    /\ Len(history) < MaxHistory
    /\ _documents' = added(_documents, collection, id, fields)
    /\ history' = Append(history, StoreCall("added", collection, id, fields))
    /\ StoreUnchanged

StoreChanged(collection, id, fields) ==
    /\ Len(history) < MaxHistory
    /\ _documents' = changed(_documents, collection, id, fields)
    /\ history' = Append(history, StoreCall("changed", collection, id, fields))
    /\ StoreUnchanged

StoreRemoved(collection, id) ==
    /\ Len(history) < MaxHistory
    /\ _documents' = removed(_documents, collection, id)
    /\ history' = Append(history, StoreCall("removed", collection, id, NoFields))
    /\ StoreUnchanged

StoreNext ==
    \/ \E coll \in StoreCollections, id \in StoreIds, f \in FieldBags :
          StoreAdded(coll, id, f)
    \/ \E coll \in StoreCollections, id \in StoreIds, f \in FieldBags :
          StoreChanged(coll, id, f)
    \/ \E coll \in StoreCollections, id \in StoreIds :
          StoreRemoved(coll, id)

StoreSpec == Init /\ [][StoreNext]_vars

\* ------------------------------------------------ stop() as a public method
\* stop() invoked on the instance by a handler in its synchronous part or,
\* when nothing is running, by a resumed async handler or by the code that
\* owns the instance; each invocation is recorded in history. The instance
\* is used for StopSpecCalls collect() calls.
StopCall == [op |-> "stop"]

Stop ==
    /\ Len(history) < MaxStops
    /\ SyncRunning \/ Idle
    /\ LET w == stop(World)
       IN  /\ _documents' = w._documents
           /\ _stopped' = w._stopped
           /\ _observeHandles' = w._observeHandles
           /\ _allAddsProcessed' = w._allAddsProcessed
           /\ _addsPromise' = w._addsPromise
           /\ _readyResolver' = w._readyResolver
           /\ calls' = w.calls
           /\ n' = w.n
           /\ history' = Append(history, StopCall)

StopNext ==
    \/ Stop
    \/ n < StopSpecCalls /\ Collects
    \/ Steps

StopSpec == Init /\ [][StopNext]_vars

\* ------------------------------------------- collect() calls that overlap
\* The caller does not wait: collect() is invoked again at any moment at which
\* no handler is in its synchronous part, also right after the previous
\* collect() returned its promise and before any continuation has run. The
\* earlier calls stay as they are. Handlers return nothing or one cursor,
\* they may call ready() first, and nothing fails.
OverlapReturns ==
    { NullRes,
      [kind |-> "cursor", coll |-> "b", data |-> <<Doc1>>],
      [kind |-> "cursor", coll |-> "c", data |-> <<Doc2>>] }

NoThrow == CHOOSE e \in Errors : TRUE

collectAnyTime(name) ==
    /\ n < MaxCalls
    /\ ~SyncRunning
    /\ IF name \notin publish_handlers
       THEN Becomes(NotFound(World, n + 1, name))
       ELSE Becomes(Begin(World, n + 1, name))

\* The steps of calls whose handlers and cursors do not fail.
CalmSteps ==
    \/ \E c \in CallIds : HandlerReady(c)
    \/ \E c \in CallIds, res \in OverlapReturns : HandlerReturns(c, res)
    \/ \E c \in CallIds : ChainReady(c)
    \/ \E c \in CallIds : ChainResolve(c)
    \/ \E c \in CallIds : PublishHandlerResult(c, 0, NoThrow)
    \/ \E c \in CallIds : AwaitStarts(c)
    \/ \E c \in CallIds : AwaitFetch(c)
    \/ \E c \in CallIds : AwaitFlush(c)
    \/ \E c \in CallIds, i \in 1..MaxCursors : StartOk(c, i)
    \/ \E c \in CallIds, i \in 1..MaxCursors : InitialAddsSent(c, i)
    \/ \E c \in CallIds, i \in 1..MaxCursors : Deliver(c, i)
    \/ \E c \in CallIds, i \in 1..MaxCursors : FlushDone(c, i)
    \/ \E c \in CallIds : TimerFires(c)

OverlapNext ==
    \/ \E name \in PubNames : collectAnyTime(name)
    \/ CalmSteps

OverlapSpec == Init /\ [][OverlapNext]_vars

\* ------------------------------------- operations after a snapshot returned
\* _generateResponse (269-275) builds a new object and new arrays, but the
\* arrays hold the document objects of this._documents themselves, and
\* changed() updates a document object in place (229). So the snapshot the
\* first call resolved with, calls[1].outcome.val as its caller sees it,
\* shares a document with the store for as long as the store still holds that
\* object: until added() puts a new object under the id, removed() deletes
\* it, or collect() replaces the store. history records the operations made
\* on the instance after the first call resolved; they are recorded until a
\* later call has resolved as well.
AliasCall(op) == StoreCall(op, "", "", NoFields)

StillHeld(h, collection, id) ==
    \A k \in 1..Len(h) :
        /\ h[k].op # "collect"
        /\ ~(h[k].op \in {"added", "removed"}
                /\ h[k].collection = collection /\ h[k].id = id)

\* Object.assign(doc, fields) seen through a snapshot that holds doc.
AssignIn(snap, collection, id, fields) ==
    IF collection \notin DOMAIN snap THEN snap
    ELSE [snap EXCEPT ![collection] =
            [k \in 1..Len(snap[collection]) |->
                IF snap[collection][k]._id = id
                THEN Merge(snap[collection][k], fields)
                ELSE snap[collection][k]]]

MayOperateLater ==
    /\ n >= 1
    /\ calls[1].outcome.st = "resolved"
    /\ \A c \in 2..n : calls[c].outcome.st # "resolved"
    /\ Len(history) < MaxLater

BecomesLater(w, call) ==
    /\ _documents' = w._documents
    /\ _stopped' = w._stopped
    /\ _observeHandles' = w._observeHandles
    /\ _allAddsProcessed' = w._allAddsProcessed
    /\ _addsPromise' = w._addsPromise
    /\ _readyResolver' = w._readyResolver
    /\ calls' = w.calls
    /\ n' = w.n
    /\ history' = Append(history, call)

LaterAdded(collection, id, fields) ==
    /\ MayOperateLater
    /\ BecomesLater([World EXCEPT
            !._documents = added(@, collection, id, fields)],
            StoreCall("added", collection, id, fields))

LaterChanged(collection, id, fields) ==
    /\ MayOperateLater
    /\ BecomesLater([World EXCEPT
            !._documents = changed(@, collection, id, fields),
            !.calls[1].outcome.val =
                IF Present(_documents, collection, id)
                   /\ StillHeld(history, collection, id)
                THEN AssignIn(@, collection, id, fields)
                ELSE @],
            StoreCall("changed", collection, id, fields))

LaterRemoved(collection, id) ==
    /\ MayOperateLater
    /\ BecomesLater([World EXCEPT
            !._documents = removed(@, collection, id)],
            StoreCall("removed", collection, id, NoFields))

LaterStop ==
    /\ MayOperateLater
    /\ BecomesLater(stop(World), AliasCall("stop"))

LaterCollect ==
    /\ MayOperateLater
    /\ n < MaxCalls
    /\ ~SyncRunning
    /\ BecomesLater(Begin(World, n + 1, "pub"), AliasCall("collect"))

AliasNext ==
    \/ n < 1 /\ Collects
    \/ CalmSteps
    \/ \E coll \in Collections, id \in StoreIds, f \in FieldBags :
          LaterAdded(coll, id, f)
    \/ \E coll \in Collections, id \in StoreIds, f \in FieldBags :
          LaterChanged(coll, id, f)
    \/ \E coll \in Collections, id \in StoreIds : LaterRemoved(coll, id)
    \/ LaterStop
    \/ LaterCollect

AliasSpec == Init /\ [][AliasNext]_vars

\* ----------------------------------------- a new call after a settled one
\* The caller awaits each call and starts the next one as soon as the
\* previous one has settled, which after a timeout (149-151) is before the
\* previous call's _publishHandlerResult has run to its end.
collectAfterSettled(name) ==
    /\ n < MaxCalls
    /\ \A c \in 1..n : calls[c].outcome.st \in {"resolved", "rejected"}
    /\ Idle
    /\ IF name \notin publish_handlers
       THEN Becomes(NotFound(World, n + 1, name))
       ELSE Becomes(Begin(World, n + 1, name))

StaleNext ==
    \/ \E name \in PubNames : collectAfterSettled(name)
    \/ CalmSteps

StaleSpec == Init /\ [][StaleNext]_vars

\* ================================================================== claims
Settled(c) == calls[c].outcome.st \in {"resolved", "rejected"}
Resolved(c) == calls[c].outcome.st = "resolved"
RejectedWith(c, err) == calls[c].outcome = [st |-> "rejected", val |-> err]
HasCursors(c) == Len(calls[c].cur) > 0
\* The handles of call c were pushed onto this._observeHandles.
Registered(c) ==
    /\ HasCursors(c)
    /\ \/ calls[c].pc \in {"fetching", "flushing", "done"}
       \/ calls[c].pc = "failed" /\ (\A h \in Cur(c) : StartOkP(h))
FetchedAndFlushed(h) == h.sent = "fired" /\ h.flush = "done"
StoppedOnce(h) == h.stops = 1
QueueEmpty(h) == h.sent = "fired" /\ h.queue = << >>

\* C1: a call is resolved only when its ready signal and its all-adds-processed
\* milestone have both fired; a handler that called ready() itself and then
\* returned cursors is resolved only when every cursor's initial fetch has
\* been signalled and every queue flush has completed.
C1_ResolvedOnlyAfterBothSignals ==
    \A c \in CallIds :
        (Live(c) /\ Resolved(c)) =>
            /\ calls[c].readyFired
            /\ calls[c].addsFired
            /\ (\A h \in Cur(c) : FetchedAndFlushed(h))

C1_Witness ==
    \E c \in CallIds :
        /\ Live(c) /\ Resolved(c)
        /\ calls[c].calledReady
        /\ HasCursors(c)

\* C2: once a found call has settled, on whatever path, the observer set is
\* empty and every handle registered for the call has been stopped.
C2_SettledMeansObserversStopped ==
    \A c \in CallIds :
        (Live(c) /\ Settled(c) /\ Registered(c)) =>
            /\ _observeHandles = << >>
            /\ (\A h \in Cur(c) : StoppedOnce(h))

\* C3: when a call with cursors is resolved, no added callback of any of its
\* handles is still queued, and the snapshot holds, under each cursor's
\* collection, a document for every id the cursor's initial fetch reported,
\* equal to what some cursor of the call reported for that collection and id.
InSnapshot(snap, c, coll, d) ==
    /\ coll \in DOMAIN snap
    /\ \E k \in 1..Len(snap[coll]) :
          /\ snap[coll][k]._id = d.id
          /\ \E i \in 1..Len(calls[c].cur) :
                /\ calls[c].cur[i].coll = coll
                /\ \E j \in 1..Len(calls[c].cur[i].data) :
                      snap[coll][k] =
                          Merge([_id |-> d.id], calls[c].cur[i].data[j].fields)

C3_SnapshotHoldsInitialFetch ==
    \A c \in CallIds :
        (Live(c) /\ Resolved(c) /\ HasCursors(c)) =>
            \A i \in 1..Len(calls[c].cur) :
                /\ QueueEmpty(calls[c].cur[i])
                /\ \A j \in 1..Len(calls[c].cur[i].data) :
                      InSnapshot(calls[c].outcome.val, c, calls[c].cur[i].coll,
                                 calls[c].cur[i].data[j])

C3_Witness ==
    \E c \in CallIds :
        /\ Live(c) /\ Resolved(c)
        /\ Len(calls[c].cur) = 2
        /\ Len(calls[c].cur[1].data) = 2
        /\ Len(calls[c].cur[2].data) = 1

\* C4: when the timer fires while a returned cursor's observation start has
\* not settled, the call is rejected with the timeout error and the instance
\* has no observer registered.
StartPendingP(h) == h.start = "pending"

C4_HangingStartTimesOut ==
    \A c \in CallIds :
        (Live(c) /\ calls[c].timeout = "fired" /\ calls[c].pc = "starting"
            /\ (\E h \in Cur(c) : StartPendingP(h))) =>
            /\ RejectedWith(c, TimeoutError(calls[c].name))
            /\ calls[c].outcome.val.ms = 5000
            /\ _observeHandles = << >>

C4_Witness ==
    \E c \in CallIds :
        /\ Live(c) /\ calls[c].timeout = "fired" /\ calls[c].pc = "starting"
        /\ (\A h \in Cur(c) : StartPendingP(h))
        /\ RejectedWith(c, TimeoutError(calls[c].name))

\* C5: a handler that fails with E (a synchronous throw, the rejection of the
\* pending value it returned, or this.error(E)) while its call is pending
\* makes collect reject with exactly E, with the timer cancelled and stop()
\* run; the call is never resolved. (The timer firing before a pending value
\* rejects is the first-settlement case of C17.)
C5_HandlerErrorRejectsWithSameError ==
    \A c \in CallIds :
        (Live(c) /\ calls[c].handler = "threw") =>
            /\ ~Resolved(c)
            /\ calls[c].timeout # "armed"
            /\ _stopped
            /\ _observeHandles = << >>
            /\ calls[c].timeout # "fired" =>
                  /\ RejectedWith(c, calls[c].failErr)
                  /\ calls[c].failErr \in { UserError(e) : e \in Errors }
                  /\ calls[c].timeout = "cleared"

C5_Witness ==
    \E c \in CallIds :
        /\ Live(c) /\ calls[c].failVia = "reject"
        /\ calls[c].calledReady
        /\ calls[c].timeout = "cleared"
        /\ RejectedWith(c, UserError("E1"))

C5_WitnessShim ==
    \E c \in CallIds :
        /\ Live(c) /\ calls[c].failVia = "shim"
        /\ RejectedWith(c, UserError("E2"))

C5_WitnessThrow ==
    \E c \in CallIds :
        /\ Live(c) /\ calls[c].failVia = "throw"
        /\ RejectedWith(c, UserError("E2"))

\* C6: an error raised while a cursor's observation starts, while a handle's
\* initial-fetch signal is awaited or while a queue is flushed rejects the
\* pending call with that cursor's error, with the timer cancelled (the call
\* does not wait for it) and every registered handle stopped; the call is
\* never resolved.
FailedP(h) == h.start = "failed" \/ h.sent = "failed" \/ h.flush = "failed"

C6_CursorErrorRejectsWithSameError ==
    \A c \in CallIds :
        (Live(c) /\ calls[c].pc = "failed") =>
            /\ ~Resolved(c)
            /\ calls[c].timeout # "armed"
            /\ _observeHandles = << >>
            /\ Registered(c) => (\A h \in Cur(c) : StoppedOnce(h))
            /\ calls[c].timeout # "fired" =>
                  /\ calls[c].timeout = "cleared"
                  /\ \E i \in 1..Len(calls[c].cur) :
                        /\ FailedP(calls[c].cur[i])
                        /\ RejectedWith(c, calls[c].cur[i].err)

C6_Witness ==
    \E c \in CallIds :
        /\ Live(c) /\ calls[c].pc = "failed"
        /\ Len(calls[c].cur) = 2
        /\ calls[c].cur[1].flush = "done"
        /\ calls[c].cur[2].flush = "failed"
        /\ (\A h \in Cur(c) : StoppedOnce(h))
        /\ RejectedWith(c, UserError("E2"))

\* C7: after a call has resolved, the observer set is empty and the stopped
\* flag is true, for the first call on the instance and for every later one.
C7_ResolvedLeavesNoObservers ==
    \A c \in CallIds :
        (Live(c) /\ Resolved(c)) =>
            /\ _observeHandles = << >>
            /\ _stopped
            /\ (\A h \in Cur(c) : StoppedOnce(h))

C7_Witness ==
    /\ n = 2
    /\ calls[1].outcome.st = "resolved"
    /\ Live(2) /\ Resolved(2) /\ HasCursors(2)

\* C8: collect with a name that has no handler rejects at once with the
\* not-found error for that name; it invokes no handler, starts no timer and
\* no observation, and leaves the instance as it was.
C8_NotFoundFailsFast ==
    [][ (n' = n + 1 /\ calls'[n'].name \notin publish_handlers) =>
            /\ calls'[n'].outcome =
                   [st |-> "rejected", val |-> NotFoundError(calls'[n'].name)]
            /\ calls'[n'].handler = "none"
            /\ calls'[n'].timeout = "none"
            /\ calls'[n'].pc = "none"
            /\ calls'[n'].cur = << >>
            /\ UNCHANGED <<_documents, _stopped, _observeHandles,
                           _allAddsProcessed, _addsPromise, _readyResolver>>
      ]_vars

C8_Witness ==
    /\ n = 2
    /\ calls[2].name \notin publish_handlers
    /\ calls[2].outcome.st = "rejected"
    /\ calls[1].outcome.st = "resolved"
    /\ _stopped
    /\ _documents # << >>

\* C9: once the return value of a handler has been processed and yielded no
\* cursor, the call resolves (unless the timer fired first), whether or not
\* the handler called ready(), with the snapshot of the store as the manual
\* events left it; without any manual event that is the empty mapping.
NoCursorsDone(c) ==
    /\ Live(c)
    /\ calls[c].pc = "done"
    /\ ~HasCursors(c)

C9_NoCursorsResolveWithManualEvents ==
    \A c \in CallIds :
        (NoCursorsDone(c) /\ ~MicrotaskDue /\ calls[c].timeout # "fired") =>
            /\ Resolved(c)
            /\ calls[c].outcome.val = _generateResponse(_documents)
            /\ ~calls[c].manual => calls[c].outcome.val = << >>
            /\ calls[c].manual => DOMAIN calls[c].outcome.val = ManualCollections

C9_Witness ==
    \E c \in CallIds :
        /\ NoCursorsDone(c) /\ Resolved(c)
        /\ ~calls[c].calledReady
        /\ calls[c].result = ArrayRes(<<OtherRes>>)
        /\ calls[c].outcome.val = [m |-> <<[_id |-> "i1", x |-> 1, y |-> 2]>>]

C9_WitnessEmpty ==
    \E c \in CallIds :
        /\ NoCursorsDone(c) /\ Resolved(c)
        /\ ~calls[c].calledReady
        /\ calls[c].result = NullRes
        /\ calls[c].outcome.val = << >>

\* C10 as stated: a call whose handler yields no cursor and never calls
\* ready() is not resolved (it waits for the timer and rejects).
C10_NoReadyNeverResolves ==
    \A c \in CallIds :
        (NoCursorsDone(c) /\ ~calls[c].calledReady) => ~Resolved(c)

\* C10 amended: such a call needs no ready() from the handler: processing the
\* return value fires both signals, after which the timer cannot fire any
\* more, and the call resolves; it is rejected only by a timer that fired
\* before the return value was processed.
C10_NoReadyStillResolves ==
    \A c \in CallIds :
        (NoCursorsDone(c) /\ ~calls[c].calledReady) =>
            /\ calls[c].readyFired /\ calls[c].addsFired
            /\ calls[c].timeout = "armed" => MicrotaskDue
            /\ calls[c].timeout = "cleared" <=> Resolved(c)
            /\ calls[c].timeout = "fired" <=>
                   RejectedWith(c, TimeoutError(calls[c].name))

C10_Witness ==
    \E c \in CallIds :
        /\ NoCursorsDone(c) /\ ~calls[c].calledReady
        /\ Resolved(c)
        /\ calls[c].timeout = "cleared"

\* C11: after any sequence of added/changed/removed calls, the snapshot holds
\* for every (collection, id) exactly the net effect of the calls made on it,
\* applied in call order: added sets the document to the id plus the given
\* fields (replacing an earlier one), changed merges fields into a document
\* that exists, removed deletes it; calls on other ids do not disturb it.
\* The net effect is the set holding the document, or the empty set.
RECURSIVE NetEffect(_, _, _, _)
NetEffect(h, upTo, collection, id) ==
    IF upTo = 0 THEN {}
    ELSE LET before == NetEffect(h, upTo - 1, collection, id)
             call == h[upTo]
         IN  IF call.collection # collection \/ call.id # id THEN before
             ELSE IF call.op = "added" THEN {Merge([_id |-> id], call.fields)}
             ELSE IF call.op = "changed"
                  THEN { Merge(d, call.fields) : d \in before }
             ELSE {}

SnapshotAt(snap, collection, id) ==
    IF collection \notin DOMAIN snap THEN {}
    ELSE { k \in 1..Len(snap[collection]) : snap[collection][k]._id = id }

C11_SnapshotIsNetEffect ==
    LET snap == _generateResponse(_documents)
    IN  \A coll \in StoreCollections, id \in StoreIds :
            /\ Cardinality(SnapshotAt(snap, coll, id)) <= 1
            /\ { snap[coll][k] : k \in SnapshotAt(snap, coll, id) } =
                   NetEffect(history, Len(history), coll, id)

C11_Witness ==
    /\ history = << StoreCall("added", "m", "i1", [x |-> 1]),
                    StoreCall("changed", "m", "i1", [y |-> 2]) >>
    /\ _generateResponse(_documents) = [m |-> <<[_id |-> "i1", x |-> 1, y |-> 2]>>]

C11_WitnessRemoved ==
    /\ history = << StoreCall("added", "m", "i1", [x |-> 1]),
                    StoreCall("changed", "m", "i1", [y |-> 2]),
                    StoreCall("removed", "m", "i1", NoFields) >>
    /\ _generateResponse(_documents) = [m |-> << >>]

\* C12: a changed or removed call on an id that is not present leaves the
\* document store, and so the snapshot and its set of collection keys, exactly
\* as it was.
C12_AbsentIdIsNoOp ==
    [][ \A call \in { history'[k] : k \in (Len(history) + 1)..Len(history') } :
            (call.op \in {"changed", "removed"}
                /\ ~Present(_documents, call.collection, call.id)) =>
                /\ _documents' = _documents
                /\ DOMAIN _generateResponse(_documents') =
                       DOMAIN _generateResponse(_documents)
      ]_vars

\* C13: every cursor whose observation a call has started has its collection
\* name in the store already; so when the call resolves, the snapshot has the
\* collection of each returned cursor as a key, and a collection whose cursors
\* all have an empty result set is mapped to the empty list.
EmptyIn(c, collection) ==
    \A h \in Cur(c) : h.coll = collection => h.data = << >>

C13_EmptyCursorKeyPresent ==
    \A c \in CallIds :
        Live(c) =>
            /\ \A h \in Cur(c) : h.start # "none" => h.coll \in DOMAIN _documents
            /\ Resolved(c) =>
                  \A h \in Cur(c) :
                      /\ h.coll \in DOMAIN calls[c].outcome.val
                      /\ EmptyIn(c, h.coll) =>
                            calls[c].outcome.val[h.coll] = << >>

C13_Witness ==
    \E c \in CallIds :
        /\ Live(c) /\ Resolved(c)
        /\ calls[c].result = [kind |-> "cursor", coll |-> "a", data |-> << >>]
        /\ ~calls[c].manual
        /\ calls[c].outcome.val = [a |-> << >>]

\* C14: every found call starts from an empty store, an empty observer set
\* and a cleared stopped flag, whatever the earlier calls on the instance
\* left; and the snapshot it resolves with is determined by the call alone:
\* its keys are the collections of the cursors it returned (plus the manual
\* collection when its handler made store calls), and each cursor collection
\* lists what those cursors fetched, in fetch order. Two sequential calls
\* whose handlers return the same cursors over the same data therefore
\* resolve with equal snapshots.
RECURSIVE AddEach(_, _, _, _)
AddEach(docs, collection, data, upTo) ==
    IF upTo = 0 THEN docs
    ELSE added(AddEach(docs, collection, data, upTo - 1), collection,
               data[upTo].id, data[upTo].fields)

RECURSIVE FetchEach(_, _)
FetchEach(handles, upTo) ==
    IF upTo = 0 THEN << >>
    ELSE AddEach(_ensureCollectionInRes(FetchEach(handles, upTo - 1),
                                        handles[upTo].coll),
                 handles[upTo].coll, handles[upTo].data,
                 Len(handles[upTo].data))

FreshFetch(c) == _generateResponse(FetchEach(calls[c].cur, Len(calls[c].cur)))

C14_EachCallStartsFresh ==
    \A c \in CallIds :
        Live(c) =>
            /\ (calls[c].handler = "sync" /\ ~calls[c].manual) =>
                  /\ _documents = << >>
                  /\ _observeHandles = << >>
                  /\ ~_stopped
            /\ Resolved(c) =>
                  /\ DOMAIN calls[c].outcome.val \ ManualCollections =
                         DOMAIN FreshFetch(c)
                  /\ ~calls[c].manual =>
                         DOMAIN calls[c].outcome.val \cap ManualCollections = {}
                  /\ \A coll \in DOMAIN FreshFetch(c) :
                         calls[c].outcome.val[coll] = FreshFetch(c)[coll]

C14_Witness ==
    /\ n = 2
    /\ calls[1].outcome.st = "resolved"
    /\ Live(2) /\ Resolved(2)
    /\ calls[2].result = [kind |-> "cursor", coll |-> "b", data |-> <<Doc1>>]
    /\ calls[2].outcome.val = [b |-> <<[_id |-> "i1", x |-> 3]>>]

\* C15: an invocation of stop() while the stopped flag is clear sets the flag,
\* stops every handle in the observer set exactly once, no other handle, and
\* empties the set; an invocation while the flag is set (a second one in a
\* row) changes nothing; and no handle is ever stopped twice.
StopInvoked == Len(history') = Len(history) + 1
StopsOf(cs, h) == cs[h[1]].cur[h[2]].stops
AllHandles == { <<c, i>> : c \in CallIds, i \in 1..MaxCursors }
HandlesOf(cs) == { h \in AllHandles : h[2] <= Len(cs[h[1]].cur) }
InArray(handles, h) == \E k \in 1..Len(handles) : handles[k] = h

C15_StopIsIdempotent ==
    [][ StopInvoked =>
            /\ ~_stopped =>
                  /\ _stopped'
                  /\ _observeHandles' = << >>
                  /\ \A h \in HandlesOf(calls) :
                        StopsOf(calls', h) = StopsOf(calls, h) +
                            (IF InArray(_observeHandles, h) THEN 1 ELSE 0)
            /\ _stopped =>
                  UNCHANGED <<_documents, _stopped, _observeHandles,
                              _allAddsProcessed, _addsPromise, _readyResolver,
                              calls, n>>
            /\ \A h \in HandlesOf(calls') : StopsOf(calls', h) <= 1
      ]_vars

\* stop() invoked twice in a row on an instance that is observing a cursor.
C15_Witness ==
    /\ Len(history) = 2
    /\ _stopped
    /\ _observeHandles = << >>
    /\ \E c \in CallIds :
          /\ calls[c].outcome.st = "pending"
          /\ calls[c].pc = "fetching"
          /\ \A h \in Cur(c) : StoppedOnce(h)

\* C16: once an array returned by a handler has been processed, the call
\* observes exactly the array's cursor elements, in array order, and each of
\* them has been started unless a start failed; the other elements are
\* dropped and cause no rejection; and a call that returned two cursors over
\* two distinct collections resolves with exactly those two keys (besides a
\* manual collection), each mapped to the documents of its cursor, so to a
\* one-element list for a cursor holding one document.
CursorIndices(elems) == { k \in 1..Len(elems) : elems[k].kind = "cursor" }
\* The array index of the i-th cursor element.
NthCursor(elems, i) ==
    CHOOSE k \in CursorIndices(elems) :
        Cardinality({ j \in CursorIndices(elems) : j <= k }) = i
DocsList(data) ==
    [k \in 1..Len(data) |-> Merge([_id |-> data[k].id], data[k].fields)]
Processed(c) == calls[c].pc \notin {"none", "queued"}

C16_ArrayCursorsObservedOthersDropped ==
    \A c \in CallIds :
        (Live(c) /\ calls[c].result.kind = "array" /\ Processed(c)) =>
            LET elems == calls[c].result.elems
                cur == calls[c].cur
                snap == calls[c].outcome.val
            IN  /\ Len(cur) = Cardinality(CursorIndices(elems))
                /\ \A i \in 1..Len(cur) :
                      /\ cur[i].coll = elems[NthCursor(elems, i)].coll
                      /\ cur[i].data = elems[NthCursor(elems, i)].data
                      /\ calls[c].pc # "failed" => cur[i].start # "none"
                /\ (\A h \in Cur(c) : ~FailedP(h)) =>
                      \/ calls[c].outcome.st \in {"pending", "resolved"}
                      \/ RejectedWith(c, TimeoutError(calls[c].name))
                /\ (Resolved(c) /\ Len(cur) = 2 /\ cur[1].coll # cur[2].coll) =>
                      /\ DOMAIN snap \ ManualCollections =
                             {cur[1].coll, cur[2].coll}
                      /\ \A i \in 1..2 : snap[cur[i].coll] = DocsList(cur[i].data)

C16_Witness ==
    \E c \in CallIds :
        /\ Live(c) /\ Resolved(c)
        /\ calls[c].result =
               ArrayRes(<< [kind |-> "cursor", coll |-> "b", data |-> <<Doc1>>],
                           [kind |-> "cursor", coll |-> "c", data |-> <<Doc2>>] >>)
        /\ calls[c].outcome.val = [b |-> <<[_id |-> "i1", x |-> 3]>>,
                                   c |-> <<[_id |-> "i2", y |-> 4]>>]

C16_WitnessMixed ==
    \E c \in CallIds :
        /\ Live(c) /\ Resolved(c)
        /\ calls[c].result =
               ArrayRes(<< OtherRes,
                           [kind |-> "cursor", coll |-> "c", data |-> <<Doc2>>] >>)
        /\ Len(calls[c].cur) = 1
        /\ calls[c].outcome.val = [c |-> <<[_id |-> "i2", y |-> 4]>>]

\* C17: once a call has settled, no later step changes its outcome (neither
\* resolved/rejected nor the value): in particular not the success
\* continuation nor an error handler that runs after the timer rejected it.
\* (When a later call begins, the model forgets the values of earlier ones.)
C17_FirstSettlementWins ==
    [][ \A c \in CallIds :
            (Settled(c) /\ n' = n) => calls'[c].outcome = calls[c].outcome
      ]_vars

\* The timer rejected the call, then both signals fired and the success
\* continuation ran.
C17_Witness ==
    \E c \in CallIds :
        /\ Live(c)
        /\ calls[c].timeout = "fired"
        /\ calls[c].readyFired /\ calls[c].addsFired
        /\ calls[c].chain = "done"
        /\ RejectedWith(c, TimeoutError(calls[c].name))

\* The timer rejected the call, then a cursor failed and the error handler ran.
C17_WitnessLateError ==
    \E c \in CallIds :
        /\ Live(c)
        /\ calls[c].timeout = "fired"
        /\ calls[c].pc = "failed"
        /\ RejectedWith(c, TimeoutError(calls[c].name))

\* C18: within a call that returned cursors, a queue flush has been started
\* only if every handle's initial-fetch signal has fired; the initial-fetch
\* signals are awaited (and the handles registered) only if every cursor's
\* observation start has returned its handle; and the all-adds-processed
\* milestone, and a ready signal the handler did not fire itself, have fired
\* only if every flush has completed.
FlushStartedP(h) == h.flush # "none"

C18_WaitsArePhased ==
    \A c \in CallIds :
        (Live(c) /\ HasCursors(c)) =>
            /\ (\E h \in Cur(c) : FlushStartedP(h)) => (\A h \in Cur(c) : SentP(h))
            /\ calls[c].pc \in {"fetching", "flushing", "done"} =>
                  (\A h \in Cur(c) : StartOkP(h))
            /\ calls[c].pc \in {"flushing", "done"} => (\A h \in Cur(c) : SentP(h))
            /\ calls[c].addsFired => (\A h \in Cur(c) : FlushedP(h))
            /\ (calls[c].readyFired /\ ~calls[c].calledReady) =>
                  (\A h \in Cur(c) : FlushedP(h))

\* Two handles, both initial fetches signalled, one flush completed and the
\* other still running: neither signal has fired.
C18_Witness ==
    \E c \in CallIds :
        /\ Live(c) /\ Len(calls[c].cur) = 2
        /\ calls[c].pc = "flushing"
        /\ calls[c].cur[1].flush = "done"
        /\ calls[c].cur[2].flush = "pending"
        /\ ~calls[c].addsFired /\ ~calls[c].readyFired

\* C19: every call whose handler was found (it is pending from the moment it
\* begins) is eventually resolved or rejected, even if the handler's pending
\* value or a cursor never settles, given that the event loop runs and an
\* armed timer fires.
C19_EveryFoundCallSettles ==
    \A c \in CallIds : (calls[c].outcome.st = "pending") ~> Settled(c)

\* A call settled although its handler's pending value never settled.
C19_Witness ==
    \E c \in CallIds :
        /\ Live(c)
        /\ calls[c].handler = "async"
        /\ calls[c].timeout = "fired"
        /\ RejectedWith(c, TimeoutError(calls[c].name))

\* A call settled although a cursor's observation start never returned.
C19_WitnessHangingCursor ==
    \E c \in CallIds :
        /\ Live(c)
        /\ calls[c].pc = "starting"
        /\ (\E h \in Cur(c) : StartPendingP(h))
        /\ Settled(c)

\* C20: a found call has one timer, armed in the step that begins the call,
\* before its handler runs, and never armed again; once the success
\* continuation or an error path has run, the timer is not armed any more; a
\* resolved call, and a call rejected with an error, has its timer cleared
\* (it has not fired and cannot fire); the timer fires only while the call is
\* pending, and then the call is rejected with the timeout error.
IsUserError(v) == v \in { UserError(e) : e \in Errors }

TimerInOrder(cs, c) ==
    /\ cs[c].handler # "none" => cs[c].timeout # "none"
    /\ (cs[c].chain = "done" \/ cs[c].handler = "threw" \/ cs[c].pc = "failed") =>
          cs[c].timeout \in {"cleared", "fired"}
    /\ cs[c].outcome.st = "resolved" => cs[c].timeout = "cleared"
    /\ (cs[c].outcome.st = "rejected" /\ IsUserError(cs[c].outcome.val)) =>
          cs[c].timeout = "cleared"
    /\ cs[c].timeout = "armed" => cs[c].outcome.st = "pending"
    /\ cs[c].timeout = "fired" =>
          cs[c].outcome = [st |-> "rejected", val |-> TimeoutError(cs[c].name)]

C20_OneTimerCancelledOnEveryPath ==
    [][ \A c \in CallIds :
            /\ calls'[c].chain # "none" => TimerInOrder(calls', c)
            /\ (calls'[c].timeout = "armed" /\ calls[c].timeout # "armed") =>
                  /\ n' = c /\ n = c - 1
                  /\ calls'[c].handler = "sync"
            /\ (calls'[c].timeout = "fired" /\ calls[c].timeout # "fired") =>
                  /\ calls[c].timeout = "armed"
                  /\ calls[c].outcome.st = "pending"
      ]_vars

C20_Witness ==
    \E c \in CallIds :
        /\ Live(c) /\ Resolved(c) /\ HasCursors(c)
        /\ calls[c].timeout = "cleared"

C20_WitnessError ==
    \E c \in CallIds :
        /\ Live(c) /\ calls[c].pc = "failed"
        /\ calls[c].timeout = "cleared"
        /\ IsUserError(calls[c].outcome.val)

\* C21: a collect() for a found publication made while an earlier call is
\* still pending is accepted like any other: it becomes pending itself, its
\* handler is entered, the earlier calls are left as they are (not rejected,
\* not told), and the shared document store, observer set and stopped flag
\* are replaced by fresh ones. The witnesses show what that leads to.
InFlight(c) == calls[c].outcome.st = "pending"

C21_OverlappingCollectIsAccepted ==
    [][ (n' = n + 1 /\ calls'[n'].name \in publish_handlers
            /\ \E c \in 1..n : InFlight(c)) =>
            /\ calls'[n'].outcome.st = "pending"
            /\ calls'[n'].handler = "sync"
            /\ \A c \in 1..n : calls'[c] = calls[c]
            /\ _documents' = << >>
            /\ _observeHandles' = << >>
            /\ ~_stopped'
      ]_vars

\* The first call resolved with a snapshot that holds a collection only the
\* second call's cursor reports.
C21_Witness ==
    /\ n = 2
    /\ Resolved(1)
    /\ HasCursors(1) /\ HasCursors(2)
    /\ calls[2].cur[1].coll # calls[1].cur[1].coll
    /\ calls[2].cur[1].coll \in DOMAIN calls[1].outcome.val
    /\ calls[1].outcome.val[calls[2].cur[1].coll] # << >>

\* The first call resolved with a snapshot that lacks the document its own
\* cursor fetched.
C21_WitnessLost ==
    /\ n = 2
    /\ Resolved(1)
    /\ HasCursors(1)
    /\ calls[1].cur[1].sent = "fired"
    /\ calls[1].cur[1].coll \notin DOMAIN calls[1].outcome.val

\* Both calls have settled, nothing is left to run, and the first call's
\* handle was never stopped and is in no observer set.
C21_WitnessLeak ==
    /\ n = 2
    /\ Settled(1) /\ Settled(2)
    /\ ~MicrotaskDue
    /\ HasCursors(1)
    /\ calls[1].cur[1].start = "ok"
    /\ calls[1].cur[1].stops = 0
    /\ calls[1].pc = "done"
    /\ calls[2].pc = "done"
    /\ _observeHandles = << >>

\* C22: the snapshot a call has resolved with is never altered by a later
\* operation on the instance (added, changed, removed, stop, a later collect).
C22_SnapshotIsByValue ==
    [][ \A c \in CallIds :
            (Resolved(c) /\ calls'[c].outcome.st = "resolved") =>
                calls'[c].outcome.val = calls[c].outcome.val
      ]_vars

\* What does hold: only changed() reaches into a returned snapshot.
C22_OnlyChangedAlters ==
    [][ \A c \in CallIds :
            (Resolved(c) /\ calls'[c].outcome.st = "resolved"
                /\ calls'[c].outcome.val # calls[c].outcome.val) =>
                /\ Len(history') = Len(history) + 1
                /\ history'[Len(history')].op = "changed"
      ]_vars

\* C23: a call started after its predecessor rejected by timeout is isolated
\* from the predecessor's late continuation: its signals are fired only by
\* its own processing (or its own handler's ready()), the observer set holds
\* only its own handles, and it resolves only once its own cursors have been
\* fetched and flushed.
TimedOut(c) == RejectedWith(c, TimeoutError(calls[c].name))
AfterTimedOut(c) == Live(c) /\ \E p \in 1..(c - 1) : TimedOut(p)
OwnSignals(c) ==
    /\ calls[c].addsFired => calls[c].pc = "done"
    /\ calls[c].readyFired => (calls[c].pc = "done" \/ calls[c].calledReady)
OwnHandles(c) ==
    \A k \in 1..Len(_observeHandles) : _observeHandles[k][1] = c
OwnFlush(c) ==
    Resolved(c) =>
        /\ calls[c].pc = "done"
        /\ \A h \in Cur(c) : FetchedAndFlushed(h)

C23_TimedOutPredecessorIsIsolated ==
    \A c \in 2..n :
        AfterTimedOut(c) => (OwnSignals(c) /\ OwnHandles(c) /\ OwnFlush(c))

\* C24: when one of several cursors fails to start, every handle a cursor
\* start of the call has produced is stopped once the call's processing has
\* finished (the call has settled, _publishHandlerResult has ended in its
\* catch block and no start is still pending). The timer did not fire here.
StartsOver(c) == \A h \in Cur(c) : h.start # "pending"
PartStartFailure(c) ==
    /\ calls[c].pc = "failed"
    /\ \E h \in Cur(c) : StartFailedP(h)
    /\ \E h \in Cur(c) : StartOkP(h)

C24_PartialStartFailureLeaksNothing ==
    \A c \in CallIds :
        (Live(c) /\ Settled(c) /\ calls[c].timeout # "fired"
            /\ PartStartFailure(c) /\ StartsOver(c)) =>
            \A h \in Cur(c) : StartOkP(h) => h.stops >= 1

\* C25: stop() was invoked on the instance, possibly before the call's
\* handles were registered; once the call has completed (settled, not by the
\* timer), its registered handles have all been stopped and the observer set
\* is empty.
CompletedRegistered(c) ==
    /\ Live(c)
    /\ Settled(c)
    /\ calls[c].timeout # "fired"
    /\ Registered(c)
AllStopped(c) ==
    /\ _observeHandles = << >>
    /\ \A h \in Cur(c) : h.stops >= 1

C25_EarlyStopStillStopsHandles ==
    \A c \in CallIds :
        (Len(history) >= 1 /\ CompletedRegistered(c)) => AllStopped(c)

\* Without a stop() from outside the completion-time stop() does its work.
C25_CompletionStopsHandles ==
    \A c \in CallIds : CompletedRegistered(c) => AllStopped(c)

====
